---- MODULE Spec2Model ----
(***************************************************************************)
(* Model of scripts/query.py of blockbase: load_blocks, score_words,       *)
(* get_related, query_blocks and main.                                     *)
(*                                                                         *)
(* Strings are sequences of characters; a character is a small integer     *)
(* (0 is the space, 1..3 are the lower-case letters a, b, c and 11..13     *)
(* their upper-case forms).  Scores are fixed-point integers: raw BM25     *)
(* scores and the thresholds are in thousandths, normalised scores (the    *)
(* result of round(x, 2)) are in hundredths, rapidfuzz ratios (0..100) are *)
(* in tenths of a point.                                                   *)
(***************************************************************************)
EXTENDS Integers, Sequences, FiniteSets, TLC

VARIABLES pc, index, all_blocks, query, top_n, scores, fuzzy,
          results, similar, bm25_scores, method, cap, related, output

vars == <<pc, index, all_blocks, query, top_n, scores, fuzzy,
          results, similar, bm25_scores, method, cap, related, output>>

(***************************************************************************)
(* Bounds of the model.                                                    *)
(***************************************************************************)
MaxEntries == 3
NumPatterns == 1
MaxLinks == 2
MaxTopN == 2
MaxCap == 2

(***************************************************************************)
(* Program constants (thousandths).                                        *)
(***************************************************************************)
MATCH_THRESHOLD == 947
SIMILAR_FLOOR == 578
SENSITIVITY_FLOOR == 300
SCORE_CUTOFF == 400

Space == 0
UpperOffset == 10

FileIds == 1..MaxEntries
Dangling == MaxEntries + 1
\* index.json is absent
NoIndex == [missing |-> TRUE]
\* nothing printed yet
NoOutput == [printed |-> FALSE]

(***************************************************************************)
(* Input domains.                                                          *)
(***************************************************************************)
TextChoices ==
    { [topic |-> <<1, 2>>, summary |-> <<>>],      \* topic "ab", no summary
      [topic |-> <<11>>,   summary |-> <<3>>] }    \* topic "A", summary "c"

QueryChoices == { <<>>, <<13, 0, 1>>, <<2>> }      \* "", "C a", "b"

\* Scores the libraries may return.  Stores without connections are explored
\* with the fine values (both sides of every threshold), stores with
\* connections with the coarse ones (no match, partial tier, confident).
RawValues == {-200, 0, 300, 301, 570, 577, 578, 940, 950, 1000}
CoarseRawValues == {0, 577, 1000}
FuzzyValues == {394, 400, 1000}
CoarseFuzzyValues == {394, 1000}

ConnChoices == UNION { [1..n -> FileIds \cup {Dangling}] : n \in 0..MaxLinks }

Shapes ==
    { [topic |-> <<>>, summary |-> <<>>, connections |-> <<>>, internal |-> TRUE] }
    \cup
    { [topic |-> t.topic, summary |-> t.summary, connections |-> c, internal |-> FALSE] :
         t \in TextChoices, c \in ConnChoices }

RECURSIVE SumLinks(_, _)
SumLinks(f, n) == IF n = 0 THEN 0 ELSE Len(f[n].connections) + SumLinks(f, n - 1)

MkEntry(i, s) ==
    [file |-> i, topic |-> s.topic, summary |-> s.summary,
     connections |-> s.connections, internal |-> s.internal]

\* The index document: "blocks" then "patterns", identifiers unique.
Docs ==
    { [blocks   |-> [i \in 1..(MaxEntries - NumPatterns) |-> MkEntry(i, f[i])],
       patterns |-> [i \in 1..NumPatterns |->
                        MkEntry(MaxEntries - NumPatterns + i, f[MaxEntries - NumPatterns + i])]] :
        f \in { g \in [1..MaxEntries -> Shapes] : SumLinks(g, MaxEntries) <= MaxLinks } }

(***************************************************************************)
(* String helpers: str.lower, str.split, the `in` substring test.          *)
(***************************************************************************)
Lower(s) == [i \in 1..Len(s) |-> IF s[i] > UpperOffset THEN s[i] - UpperOffset ELSE s[i]]

RECURSIVE SplitFrom(_, _, _)
SplitFrom(s, cur, acc) ==
    IF s = <<>> THEN (IF cur = <<>> THEN acc ELSE Append(acc, cur))
    ELSE IF Head(s) = Space
         THEN SplitFrom(Tail(s), <<>>, IF cur = <<>> THEN acc ELSE Append(acc, cur))
         ELSE SplitFrom(Tail(s), Append(cur, Head(s)), acc)

Split(s) == SplitFrom(s, <<>>, <<>>)

IsSubstring(w, h) ==
    \E i \in 1..(Len(h) - Len(w) + 1) : SubSeq(h, i, i + Len(w) - 1) = w

Range(s) == { s[i] : i \in 1..Len(s) }

RECURSIVE SelectIdx(_, _, _)
\* the indices i of 1..n with P[i], ascending
SelectIdx(P, i, n) ==
    IF i > n THEN <<>>
    ELSE IF P[i] THEN <<i>> \o SelectIdx(P, i + 1, n) ELSE SelectIdx(P, i + 1, n)

Take(s, n) == SubSeq(s, 1, IF n < Len(s) THEN n ELSE Len(s))

(***************************************************************************)
(* sorted(items, key=lambda x: -x[1]): a stable sort, descending by the    *)
(* score n/d of each item (d > 0).                                         *)
(***************************************************************************)
Greater(x, y) == x.n * y.d > y.n * x.d

RECURSIVE InsertDesc_Unstable(_, _)
\* an insertion that puts an item ahead of the earlier items of equal score
InsertDesc_Unstable(sorted, x) ==
    IF sorted = <<>> THEN <<x>>
    ELSE IF ~Greater(Head(sorted), x) THEN <<x>> \o sorted
         ELSE <<Head(sorted)>> \o InsertDesc_Unstable(Tail(sorted), x)

RECURSIVE InsertDesc(_, _)
InsertDesc(sorted, x) ==
    IF sorted = <<>> THEN <<x>>
    ELSE IF Greater(x, Head(sorted)) THEN <<x>> \o sorted
         ELSE <<Head(sorted)>> \o InsertDesc(Tail(sorted), x)

RECURSIVE SortedDesc_Ascending(_)
\* the sort with the sign of the key lost: lowest score first
SortedDesc_Ascending(s) ==
    IF s = <<>> THEN <<>>
    ELSE LET rev(r) == [i \in 1..Len(r) |-> r[Len(r) + 1 - i]]
         IN  rev(InsertDesc(rev(SortedDesc_Ascending(SubSeq(s, 1, Len(s) - 1))), s[Len(s)]))

RECURSIVE SortedDesc(_)
SortedDesc(s) ==
    IF s = <<>> THEN <<>>
    ELSE InsertDesc(SortedDesc(SubSeq(s, 1, Len(s) - 1)), s[Len(s)])

(***************************************************************************)
(* round(n / d, 2) in hundredths, d > 0: Python rounds to the nearest      *)
(* value, an exact tie to the even one.                                    *)
(***************************************************************************)
\* truncation to two decimals instead of rounding
Round2_Truncating(n, d) == (n * 100) \div d

Round2(n, d) ==
    LET q == (n * 100) \div d
        r == (n * 100) % d
    IN  IF 2 * r < d THEN q
        ELSE IF 2 * r > d THEN q + 1
        ELSE IF q % 2 = 0 THEN q ELSE q + 1

(***************************************************************************)
(* load_blocks                                                             *)
(***************************************************************************)
\* load_blocks without the `if not b.get("internal")` filter
load_blocks_unfiltered(data) == data.blocks \o data.patterns

load_blocks(data) ==
    LET all == data.blocks \o data.patterns
    IN  SelectSeq(all, LAMBDA b : ~b.internal)

(***************************************************************************)
(* score_words: the fraction n/d of the query words that occur (as         *)
(* substrings) in "topic summary", lower-cased.                            *)
(***************************************************************************)
Haystack(block) == Lower(block.topic \o <<Space>> \o block.summary)

score_words(block, query_words) ==
    IF query_words = <<>> THEN [n |-> 0, d |-> 1]
    ELSE [n |-> Cardinality({ i \in 1..Len(query_words) :
                                 IsSubstring(query_words[i], Haystack(block)) }),
          d |-> Len(query_words)]

(***************************************************************************)
(* get_related                                                             *)
(***************************************************************************)
\* next((b for b in all_blocks if b["file"] == f), None), as a sequence of
\* zero or one block
Lookup(blocks, f) ==
    LET hit == SelectSeq(blocks, LAMBDA b : b.file = f)
    IN  IF hit = <<>> THEN <<>> ELSE <<Head(hit)>>

PrimaryFiles(primary_results) == { primary_results[i].block.file : i \in 1..Len(primary_results) }

\* candidates[conn] = max(candidates.get(conn, 0), s): the dict keeps the
\* position of the first insertion of a key
PutMax(cands, f, s) ==
    IF \E i \in 1..Len(cands) : cands[i].file = f
    THEN [i \in 1..Len(cands) |->
            IF cands[i].file = f /\ Greater(s, cands[i])
            THEN [file |-> f, n |-> s.n, d |-> s.d] ELSE cands[i]]
    ELSE Append(cands, [file |-> f, n |-> s.n, d |-> s.d])

RECURSIVE HopConns_NoPrimaryCheck(_, _, _, _, _)
\* the inner loop without `if conn not in primary_files`
HopConns_NoPrimaryCheck(conns, cands, primary_files, blocks, query_words) ==
    IF conns = <<>> THEN cands
    ELSE LET conn == Head(conns)
             candidate == Lookup(blocks, conn)
             next == IF candidate # <<>>
                     THEN PutMax(cands, conn, score_words(candidate[1], query_words))
                     ELSE cands
         IN  HopConns_NoPrimaryCheck(Tail(conns), next, primary_files, blocks, query_words)

RECURSIVE HopConns(_, _, _, _, _)
\* the inner loop over block.get("connections", [])
HopConns(conns, cands, primary_files, blocks, query_words) ==
    IF conns = <<>> THEN cands
    ELSE LET conn == Head(conns)
             candidate == Lookup(blocks, conn)
             next == IF conn \notin primary_files /\ candidate # <<>>
                     THEN PutMax(cands, conn, score_words(candidate[1], query_words))
                     ELSE cands
         IN  HopConns(Tail(conns), next, primary_files, blocks, query_words)

RECURSIVE HopResults(_, _, _, _, _)
\* the outer loop over primary_results
HopResults(prim, cands, primary_files, blocks, query_words) ==
    IF prim = <<>> THEN cands
    ELSE HopResults(Tail(prim),
                    HopConns(Head(prim).block.connections, cands, primary_files,
                             blocks, query_words),
                    primary_files, blocks, query_words)

Candidates(primary_results, blocks, query_words) ==
    HopResults(primary_results, <<>>, PrimaryFiles(primary_results), blocks, query_words)

\* the graph hop without the [:cap] slice
GraphHop_NoCap(primary_results, blocks, query_words, c) ==
    SortedDesc(Candidates(primary_results, blocks, query_words))

\* related = sorted(candidates.items(), key=lambda x: -x[1])[:cap]
GraphHop(primary_results, blocks, query_words, c) ==
    Take(SortedDesc(Candidates(primary_results, blocks, query_words)), c)

\* the fallback over the score map without `s >= SIMILAR_FLOOR`
FallbackBm25_NoFloor(scoremap, seen, k) ==
    LET items == [i \in 1..Len(scoremap) |->
                     [file |-> scoremap[i].file, n |-> scoremap[i].s, d |-> 1]]
        pool == SelectSeq(items, LAMBDA x : x.file \notin seen)
    IN  Take(SortedDesc(pool), k)

\* the `if bm25_scores:` branch of the fallback
FallbackBm25(scoremap, seen, k) ==
    LET items == [i \in 1..Len(scoremap) |->
                     [file |-> scoremap[i].file, n |-> scoremap[i].s, d |-> 1]]
        pool == SelectSeq(items, LAMBDA x : x.file \notin seen /\ x.n * 10 >= SIMILAR_FLOOR)
    IN  Take(SortedDesc(pool), k)

\* the word-overlap fallback without `score_words(b, query_words) > 0`
FallbackWords_NoPositive(blocks, query_words, seen, k) ==
    LET items == [i \in 1..Len(blocks) |->
                     [file |-> blocks[i].file,
                      n |-> score_words(blocks[i], query_words).n,
                      d |-> score_words(blocks[i], query_words).d]]
        pool == SelectSeq(items, LAMBDA x : x.file \notin seen)
    IN  Take(SortedDesc(pool), k)

\* the `else` branch of the fallback: word overlap, no floor
FallbackWords(blocks, query_words, seen, k) ==
    LET items == [i \in 1..Len(blocks) |->
                     [file |-> blocks[i].file,
                      n |-> score_words(blocks[i], query_words).n,
                      d |-> score_words(blocks[i], query_words).d]]
        pool == SelectSeq(items, LAMBDA x : x.file \notin seen /\ x.n > 0)
    IN  Take(SortedDesc(pool), k)

FallbackFill(hop, primary_results, blocks, query_words, scoremap, c) ==
    IF Len(hop) < c
    THEN LET seen == PrimaryFiles(primary_results) \cup { hop[i].file : i \in 1..Len(hop) }
         IN  IF scoremap # <<>>
             THEN FallbackBm25(scoremap, seen, c - Len(hop))
             ELSE FallbackWords(blocks, query_words, seen, c - Len(hop))
    ELSE <<>>

RECURSIVE Resolve(_, _)
\* [b for f, _ in related if (b := next(..., None))]
Resolve(items, blocks) ==
    IF items = <<>> THEN <<>>
    ELSE Lookup(blocks, Head(items).file) \o Resolve(Tail(items), blocks)

\* get_related returning the fallback fill ahead of the graph hop
get_related_FillFirst(primary_results, blocks, query_words, scoremap, c) ==
    LET hop == GraphHop(primary_results, blocks, query_words, c)
        fill == FallbackFill(hop, primary_results, blocks, query_words, scoremap, c)
    IN  Resolve(fill \o hop, blocks)

get_related(primary_results, blocks, query_words, scoremap, c) ==
    LET hop == GraphHop(primary_results, blocks, query_words, c)
        fill == FallbackFill(hop, primary_results, blocks, query_words, scoremap, c)
    IN  Resolve(hop \o fill, blocks)

(***************************************************************************)
(* query_blocks.  The two scorers are libraries: raw is the array returned *)
(* by BM25Okapi.get_scores (one score per block), fz the token_set_ratio   *)
(* of each block as process.extract computes it.                           *)
(***************************************************************************)
Tokenized(block) ==
    Split(Lower(block.topic \o <<Space>> \o block.topic \o <<Space>> \o block.summary))

QueryWords(q) == Split(Lower(q))

RECURSIVE MaxOf(_)
MaxOf(s) ==
    IF Len(s) = 1 THEN s[1]
    ELSE LET m == MaxOf(Tail(s)) IN IF s[1] > m THEN s[1] ELSE m

MaxScore(raw) == IF Len(raw) > 0 THEN MaxOf(raw) ELSE 0

\* the tuples of `ranked`, before the sort
RankedItems(blocks, raw) ==
    LET idx == SelectIdx([i \in 1..Len(blocks) |-> raw[i] > 0], 1, Len(blocks))
    IN  [k \in 1..Len(idx) |->
            [block |-> blocks[idx[k]], n |-> Round2(raw[idx[k]], MaxScore(raw)), d |-> 1]]

Pairs(items) == [k \in 1..Len(items) |-> [block |-> items[k].block, score |-> items[k].n]]

IsMatch(x) == x.n * 10 >= MATCH_THRESHOLD

\* the partial tier without its upper bound
IsSimilar_NoUpperBound(x) == SIMILAR_FLOOR <= x.n * 10

IsSimilar(x) == SIMILAR_FLOOR <= x.n * 10 /\ x.n * 10 < MATCH_THRESHOLD

Bm25Path(blocks, n, raw) ==
    LET ranked == SortedDesc(RankedItems(blocks, raw))
    IN  [results     |-> Pairs(Take(SelectSeq(ranked, IsMatch), n)),
         similar     |-> Pairs(Take(SelectSeq(ranked, IsSimilar), n)),
         bm25_scores |-> [i \in 1..Len(blocks) |->
                             [file |-> blocks[i].file, s |-> Round2(raw[i], MaxScore(raw))]],
         method      |-> "bm25"]

\* process.extract(query, targets, scorer=token_set_ratio, limit=top_n, score_cutoff=40)
Extract(blocks, fz, limit) ==
    LET idx == SelectIdx([i \in 1..Len(blocks) |-> fz[i] >= SCORE_CUTOFF], 1, Len(blocks))
        items == [k \in 1..Len(idx) |-> [block |-> blocks[idx[k]], n |-> fz[idx[k]], d |-> 1]]
    IN  Take(SortedDesc(items), limit)

FuzzyPath(blocks, n, fz) ==
    LET fuzzy_results == Extract(blocks, fz, n)
    IN  [results     |-> [k \in 1..Len(fuzzy_results) |->
                             [block |-> fuzzy_results[k].block,
                              score |-> Round2(fuzzy_results[k].n, 1000)]],
         similar     |-> <<>>,
         bm25_scores |-> <<>>,
         method      |-> "fuzzy"]

\* the routing test with >= in place of >
UsesBm25_Inclusive(raw) == MaxScore(raw) >= SENSITIVITY_FLOOR

UsesBm25(raw) == MaxScore(raw) > SENSITIVITY_FLOOR

query_blocks(blocks, n, raw, fz) ==
    IF UsesBm25(raw) THEN Bm25Path(blocks, n, raw) ELSE FuzzyPath(blocks, n, fz)

(***************************************************************************)
(* What the libraries can return.                                          *)
(***************************************************************************)
\* BM25Okapi(tokenized) divides by the corpus size and by the vocabulary
\* size: it raises ZeroDivisionError when either is zero.
Bm25Raises(blocks) ==
    \/ Len(blocks) = 0
    \/ \A i \in 1..Len(blocks) : Tokenized(blocks[i]) = <<>>

\* get_scores: a block that holds no query token scores 0; the score of a
\* term may be negative (a term of most documents gets the idf
\* epsilon * average_idf, which is negative when the average idf is).
\* The two texts of TextChoices stand for the entries that hold a query
\* token and those that do not: the score of an entry that holds one is
\* any value of the domain, as term frequencies and lengths would make it.
HasLinks(blocks) == \E i \in 1..Len(blocks) : blocks[i].connections # <<>>

RECURSIVE SeqsOver(_, _)
\* the sequences s of length n with s[i] \in dom[i]
SeqsOver(dom, n) ==
    IF n = 0 THEN { <<>> }
    ELSE { Append(s, v) : s \in SeqsOver(dom, n - 1), v \in dom[n] }

RawScores(blocks, q) ==
    SeqsOver([i \in 1..Len(blocks) |->
                 IF Range(QueryWords(q)) \cap Range(Tokenized(blocks[i])) = {}
                 THEN {0}
                 ELSE IF HasLinks(blocks) THEN CoarseRawValues ELSE RawValues],
             Len(blocks))

\* token_set_ratio is 0 when either string has no token
FuzzyScores(blocks, q) ==
    SeqsOver([i \in 1..Len(blocks) |->
                 IF Split(q) = <<>>
                    \/ Split(blocks[i].topic \o <<Space>> \o blocks[i].summary) = <<>>
                 THEN {0}
                 ELSE IF HasLinks(blocks) THEN CoarseFuzzyValues ELSE FuzzyValues],
             Len(blocks))

(***************************************************************************)
(* The state machine: one run of main.                                     *)
(***************************************************************************)
Init ==
    /\ pc = "start"
    /\ index \in Docs \cup {NoIndex}
    /\ all_blocks = <<>>
    /\ query = <<>>
    /\ top_n = 0
    /\ scores = <<>>
    /\ fuzzy = <<>>
    /\ results = <<>>
    /\ similar = <<>>
    /\ bm25_scores = <<>>
    /\ method = ""
    /\ cap = 0
    /\ related = <<>>
    /\ output = NoOutput

\* all_blocks = load_blocks()
LoadBlocks ==
    /\ pc = "start"
    /\ index # NoIndex
    /\ all_blocks' = load_blocks(index)
    /\ pc' = "loaded"
    /\ UNCHANGED <<index, query, top_n, scores, fuzzy, results, similar,
                   bm25_scores, method, cap, related, output>>

\* index.json is missing: read_text raises
LoadFails ==
    /\ pc = "start"
    /\ index = NoIndex
    /\ pc' = "raised"
    /\ UNCHANGED <<index, all_blocks, query, top_n, scores, fuzzy, results, similar,
                   bm25_scores, method, cap, related, output>>

SetScored(q, n, raw, fz) ==
    LET r == query_blocks(all_blocks, n, raw, fz)
    IN  /\ query' = q
        /\ top_n' = n
        /\ scores' = raw
        /\ fuzzy' = fz
        /\ results' = r.results
        /\ similar' = r.similar
        /\ bm25_scores' = r.bm25_scores
        /\ method' = r.method
        /\ pc' = "scored"
        /\ UNCHANGED <<index, all_blocks, cap, related, output>>

\* query_blocks, max_score > 0.3
QueryBm25 ==
    /\ pc = "loaded"
    /\ ~Bm25Raises(all_blocks)
    /\ \E q \in QueryChoices, n \in 0..MaxTopN :
         \E raw \in RawScores(all_blocks, q) :
            /\ UsesBm25(raw)
            /\ SetScored(q, n, raw, <<>>)

\* query_blocks, max_score <= 0.3
QueryFuzzy ==
    /\ pc = "loaded"
    /\ ~Bm25Raises(all_blocks)
    /\ \E q \in QueryChoices, n \in 0..MaxTopN :
         \E raw \in RawScores(all_blocks, q), fz \in FuzzyScores(all_blocks, q) :
            /\ ~UsesBm25(raw)
            /\ SetScored(q, n, raw, fz)

\* query_blocks, BM25Okapi raises
QueryRaises ==
    /\ pc = "loaded"
    /\ Bm25Raises(all_blocks)
    /\ \E q \in QueryChoices, n \in 0..MaxTopN :
         /\ query' = q
         /\ top_n' = n
    /\ pc' = "raised"
    /\ UNCHANGED <<index, all_blocks, scores, fuzzy, results, similar,
                   bm25_scores, method, cap, related, output>>

\* main, `if not results`: the gap report (JSON, rich and plain text alike)
MainGap ==
    /\ pc = "scored"
    /\ results = <<>>
    /\ output' = [gap_detected |-> TRUE, results |-> <<>>, similar_blocks |-> similar]
    /\ pc' = "done"
    /\ UNCHANGED <<index, all_blocks, query, top_n, scores, fuzzy, results, similar,
                   bm25_scores, method, cap, related>>

\* main calling get_related without the score map of the query
MainRelated_NoScoreMap ==
    /\ pc = "scored"
    /\ results # <<>>
    /\ \E c \in 0..MaxCap :
         /\ cap' = c
         /\ related' = get_related(results, all_blocks, QueryWords(query), <<>>, c)
         /\ output' = [gap_detected |-> FALSE, results |-> results, related_blocks |-> related']
    /\ pc' = "done"
    /\ UNCHANGED <<index, all_blocks, query, top_n, scores, fuzzy, results, similar,
                   bm25_scores, method>>

\* main, results found, JSON or rich output
MainRelated ==
    /\ pc = "scored"
    /\ results # <<>>
    /\ \E c \in 0..MaxCap :
         /\ cap' = c
         /\ related' = get_related(results, all_blocks, QueryWords(query), bm25_scores, c)
         /\ output' = [gap_detected |-> FALSE, results |-> results, related_blocks |-> related']
    /\ pc' = "done"
    /\ UNCHANGED <<index, all_blocks, query, top_n, scores, fuzzy, results, similar,
                   bm25_scores, method>>

\* main, results found, rich not installed: the plain-text report
MainPlain ==
    /\ pc = "scored"
    /\ results # <<>>
    /\ output' = [gap_detected |-> FALSE, results |-> results]
    /\ pc' = "done"
    /\ UNCHANGED <<index, all_blocks, query, top_n, scores, fuzzy, results, similar,
                   bm25_scores, method, cap, related>>

Next ==
    \/ LoadBlocks
    \/ LoadFails
    \/ QueryBm25
    \/ QueryFuzzy
    \/ QueryRaises
    \/ MainGap
    \/ MainRelated
    \/ MainPlain

Spec == Init /\ [][Next]_vars

(***************************************************************************)
(* Vocabulary of the properties.                                           *)
(***************************************************************************)
Scored == pc \in {"scored", "done"}

OnBm25Path == Scored /\ method = "bm25"

\* get_related has run and its list is part of the report
RelatedComputed == pc = "done" /\ "related_blocks" \in DOMAIN output

FilesOf(pairs) == { pairs[i].block.file : i \in 1..Len(pairs) }

ResultFiles == FilesOf(results)

SimilarFiles == FilesOf(similar)

RelatedFiles == { related[i].file : i \in 1..Len(related) }

StoreFiles == { all_blocks[i].file : i \in 1..Len(all_blocks) }

InternalFiles ==
    IF index = NoIndex THEN {}
    ELSE LET all == index.blocks \o index.patterns
         IN  { all[i].file : i \in { j \in 1..Len(all) : all[j].internal } }

\* identifiers a confident result declares as connections
ConnTargets ==
    UNION { Range(results[i].block.connections) : i \in 1..Len(results) }

\* connection targets that are in the store and not themselves results
HopTargets == { f \in ConnTargets : f \in StoreFiles /\ f \notin ResultFiles }

BelowFloor(i) == bm25_scores[i].s * 10 < SIMILAR_FLOOR

SharesNoToken(block) == Range(QueryWords(query)) \cap Range(Tokenized(block)) = {}

\* C1: on the ranking-function path results and similar share no entry,
\* every result has score >= MATCH_THRESHOLD, every similar entry has
\* SIMILAR_FLOOR <= score < MATCH_THRESHOLD, and no entry whose normalized
\* score is below SIMILAR_FLOOR is in either list.
C1_TierPartition ==
    OnBm25Path =>
        /\ ResultFiles \cap SimilarFiles = {}
        /\ \A i \in 1..Len(results) : results[i].score * 10 >= MATCH_THRESHOLD
        /\ \A i \in 1..Len(similar) :
              /\ SIMILAR_FLOOR <= similar[i].score * 10
              /\ similar[i].score * 10 < MATCH_THRESHOLD
        /\ \A i \in 1..Len(bm25_scores) :
              BelowFloor(i) => bm25_scores[i].file \notin ResultFiles \cup SimilarFiles

C1_Witness ==
    /\ OnBm25Path
    /\ results # <<>>
    /\ similar # <<>>
    /\ \E i \in 1..Len(bm25_scores) : BelowFloor(i) /\ scores[i] > 0

\* C2: no entry flagged internal is in the output of load_blocks, nor in
\* results, similar or related, on either scorer path.
C2_NoInternalEntry ==
    /\ \A i \in 1..Len(all_blocks) :
          ~all_blocks[i].internal /\ all_blocks[i].file \notin InternalFiles
    /\ \A i \in 1..Len(results) :
          ~results[i].block.internal /\ results[i].block.file \notin InternalFiles
    /\ \A i \in 1..Len(similar) :
          ~similar[i].block.internal /\ similar[i].block.file \notin InternalFiles
    /\ \A i \in 1..Len(related) :
          ~related[i].internal /\ related[i].file \notin InternalFiles

C2_Witness ==
    /\ RelatedComputed
    /\ cap >= 1
    /\ ConnTargets \cap InternalFiles # {}

\* C3: get_related returns no entry whose identifier is in the confident
\* result set, with or without a score map, also when a result lists itself
\* or another result, and dangling targets are skipped.
C3_RelatedExcludesResults ==
    RelatedComputed => RelatedFiles \cap ResultFiles = {}

C3_Witness ==
    /\ RelatedComputed
    /\ related # <<>>
    /\ ConnTargets \cap ResultFiles # {}
    /\ ConnTargets \ (StoreFiles \cup InternalFiles) # {}

\* C4 as stated: on the ranking-function path an entry whose normalized
\* score is below SIMILAR_FLOOR appears in none of results, similar, related.
C4_Original ==
    OnBm25Path =>
        \A i \in 1..Len(bm25_scores) :
            BelowFloor(i) =>
                bm25_scores[i].file \notin ResultFiles \cup SimilarFiles \cup RelatedFiles

\* C4 as amended: on the ranking-function path an entry whose normalized
\* score is below SIMILAR_FLOOR is in neither results nor similar, and is in
\* related only as a declared connection of a confident result (graph hop);
\* the fallback fill never adds it.
C4_BelowFloorOnlyByGraphHop ==
    OnBm25Path =>
        \A i \in 1..Len(bm25_scores) :
            BelowFloor(i) =>
                /\ bm25_scores[i].file \notin ResultFiles \cup SimilarFiles
                /\ bm25_scores[i].file \in RelatedFiles => bm25_scores[i].file \in ConnTargets

C4_Witness ==
    /\ RelatedComputed
    /\ method = "bm25"
    /\ Len(related) < cap
    /\ \E i, j \in 1..Len(bm25_scores) :
          /\ BelowFloor(i) /\ bm25_scores[i].file \in RelatedFiles
          /\ BelowFloor(j) /\ bm25_scores[j].file \notin RelatedFiles

\* C5: on both scorer paths, at most top_n results, at most top_n similar
\* entries, and at most cap related entries (graph hop and fallback together).
C5_SizeCaps ==
    /\ Scored => Len(results) <= top_n /\ Len(similar) <= top_n
    /\ RelatedComputed => Len(related) <= cap

C5_Witness ==
    /\ RelatedComputed
    /\ top_n = 1
    /\ Len(results) = 1
    /\ Cardinality({ i \in 1..Len(bm25_scores) : bm25_scores[i].s * 10 >= MATCH_THRESHOLD }) > 1
    /\ cap = 1
    /\ Len(related) = 1
    /\ Cardinality(HopTargets) > 1

\* C6: routing follows the maximum raw score alone: at most 0.3 gives the
\* fuzzy path (tag fuzzy, no similar, no score map, every result at or above
\* the 0.40 cutoff); above 0.3 gives the ranking-function path (tag bm25, a
\* score map with one score for every entry of the store).
C6_Routing ==
    Scored =>
        IF MaxScore(scores) <= SENSITIVITY_FLOOR
        THEN /\ method = "fuzzy"
             /\ similar = <<>>
             /\ bm25_scores = <<>>
             /\ \A i \in 1..Len(results) :
                   /\ results[i].score * 10 >= SCORE_CUTOFF
                   /\ \A j \in 1..Len(all_blocks) :
                         all_blocks[j].file = results[i].block.file => fuzzy[j] >= SCORE_CUTOFF
        ELSE /\ method = "bm25"
             /\ Len(bm25_scores) = Len(all_blocks)
             /\ \A i \in 1..Len(all_blocks) : bm25_scores[i].file = all_blocks[i].file

C6_Witness ==
    /\ Scored
    /\ MaxScore(scores) = SENSITIVITY_FLOOR
    /\ results # <<>>
    /\ \E i \in 1..Len(fuzzy) : fuzzy[i] < SCORE_CUTOFF /\ fuzzy[i] > 0

\* C7 as stated: a gap is reported iff results is empty; a gap carries the
\* similar pairs and no related list; a non-gap carries the result pairs and
\* the related list get_related computes from those results and the score
\* map of the same query.
C7_Original ==
    pc = "done" =>
        /\ output.gap_detected <=> (results = <<>>)
        /\ output.gap_detected =>
              /\ output.similar_blocks = similar
              /\ "related_blocks" \notin DOMAIN output
              /\ related = <<>>
        /\ ~output.gap_detected =>
              /\ output.results = results
              /\ "related_blocks" \in DOMAIN output
              /\ output.related_blocks =
                    get_related(results, all_blocks, QueryWords(query), bm25_scores, cap)

\* C7 as amended: a gap is reported iff results is empty; a gap carries the
\* similar pairs and no related list; a non-gap carries the result pairs,
\* and its related list, when the report has one (JSON and rich output; the
\* plain-text report has none), is the one get_related computes from those
\* results and the score map of the same query.
C7_GapIffNoResults ==
    pc = "done" =>
        /\ output.gap_detected <=> (results = <<>>)
        /\ output.gap_detected =>
              /\ output.similar_blocks = similar
              /\ "related_blocks" \notin DOMAIN output
              /\ related = <<>>
        /\ ~output.gap_detected =>
              /\ output.results = results
              /\ "related_blocks" \in DOMAIN output =>
                    output.related_blocks =
                        get_related(results, all_blocks, QueryWords(query), bm25_scores, cap)

C7_Witness ==
    /\ RelatedComputed
    /\ ~output.gap_detected
    /\ method = "bm25"
    /\ output.related_blocks # <<>>
    /\ \E i \in 1..Len(bm25_scores) :
          BelowFloor(i) /\ bm25_scores[i].file \notin RelatedFiles \cup ResultFiles

\* C8: a store entry a confident result declares as a connection, itself not
\* a result, is in related when cap >= 1 and there are at most cap such
\* targets, even if it shares no token with the query; and every graph-hop
\* entry precedes every fallback-filled entry in related.
C8_GraphHopFirst ==
    RelatedComputed =>
        /\ (cap >= 1 /\ Cardinality(HopTargets) <= cap) => HopTargets \subseteq RelatedFiles
        /\ \A i, j \in 1..Len(related) :
              (i < j /\ related[j].file \in HopTargets) => related[i].file \in HopTargets

C8_Witness ==
    /\ RelatedComputed
    /\ Len(related) = 2
    /\ related[1].file \in HopTargets
    /\ SharesNoToken(related[1])
    /\ related[2].file \notin HopTargets

\* raw / maxRaw of store entry i, compared with k thousandths
RatioAbove(i, k) == 1000 * scores[i] > k * MaxScore(scores)

RatioBelow(i, k) == 1000 * scores[i] < k * MaxScore(scores)

RatioIs(i, k) == 1000 * scores[i] = k * MaxScore(scores)

C10_NormalizedInUnitInterval ==
    OnBm25Path =>
        /\ \A i \in 1..Len(bm25_scores) : 0 <= bm25_scores[i].s /\ bm25_scores[i].s <= 100
        /\ \A i \in 1..Len(results) : 0 <= results[i].score /\ results[i].score <= 100
        /\ \A i \in 1..Len(similar) : 0 <= similar[i].score /\ similar[i].score <= 100

\* query_blocks has been called on an empty store or with a query that
\* splits into no token
EmptyInput ==
    /\ index # NoIndex
    /\ pc \in {"scored", "raised", "done"}
    /\ (all_blocks = <<>> \/ Split(query) = <<>>)

\* C11: an empty corpus or an empty query is not an error: query_blocks
\* completes without raising and yields a gap (empty results) with an empty
\* similar list.
C11_EmptyInputIsGap ==
    EmptyInput => pc # "raised" /\ results = <<>> /\ similar = <<>>

\* position of the entry with identifier f in the store, and in the index
\* document (blocks, then patterns)
StorePos(f) == CHOOSE i \in 1..Len(all_blocks) : all_blocks[i].file = f

IndexPos(f) ==
    LET all == index.blocks \o index.patterns
    IN  CHOOSE i \in 1..Len(all) : all[i].file = f

InMatchTier(k) == bm25_scores[k].s * 10 >= MATCH_THRESHOLD

InSimilarTier(k) ==
    SIMILAR_FLOOR <= bm25_scores[k].s * 10 /\ bm25_scores[k].s * 10 < MATCH_THRESHOLD

\* list holds, best first, the entries of a tier: only entries of raw score
\* > 0, scores non-increasing, equal scores in index order, and an entry of
\* the tier is left out only when top_n entries that rank ahead of it are in
RankedTier(list, InTier(_)) ==
    /\ \A i \in 1..Len(list) : scores[StorePos(list[i].block.file)] > 0
    /\ \A i, j \in 1..Len(list) :
          i < j =>
              /\ list[i].score >= list[j].score
              /\ list[i].score = list[j].score =>
                    IndexPos(list[i].block.file) < IndexPos(list[j].block.file)
    /\ \A k \in 1..Len(all_blocks) :
          (scores[k] > 0 /\ InTier(k) /\ all_blocks[k].file \notin FilesOf(list)) =>
              /\ Len(list) = top_n
              /\ \A i \in 1..Len(list) :
                    \/ list[i].score > bm25_scores[k].s
                    \/ /\ list[i].score = bm25_scores[k].s
                       /\ IndexPos(list[i].block.file) < IndexPos(all_blocks[k].file)

\* C12: on the ranking-function path results and similar are each ordered by
\* non-increasing normalized score, hold only entries of raw score > 0, keep
\* entries of equal score in store order (blocks before patterns, original
\* order), and truncation to top_n keeps the highest-scoring entries of each
\* tier.
C12_RankedOrder ==
    OnBm25Path => RankedTier(results, InMatchTier) /\ RankedTier(similar, InSimilarTier)

C12_Witness ==
    /\ OnBm25Path
    /\ top_n = 2
    /\ Len(results) = 2
    /\ results[1].score = results[2].score
    /\ results[2].block.file > MaxEntries - NumPatterns
    /\ \E k \in 1..Len(all_blocks) :
          InMatchTier(k) /\ all_blocks[k].file \notin ResultFiles
                         /\ bm25_scores[k].s < results[2].score

\* number of candidates the graph hop yields, and the entries of related
\* that follow them
HopCount == IF Cardinality(HopTargets) < cap THEN Cardinality(HopTargets) ELSE cap

Filled == SubSeq(related, HopCount + 1, Len(related))

\* the score the fallback ranks the store entry f by: its normalized score
\* (hundredths) when there is a score map, else the number of query words it
\* holds
FillScore(f) ==
    IF bm25_scores # <<>> THEN bm25_scores[StorePos(f)].s
    ELSE score_words(all_blocks[StorePos(f)], QueryWords(query)).n

FillEligible(f) ==
    IF bm25_scores # <<>> THEN FillScore(f) * 10 >= SIMILAR_FLOOR
    ELSE FillScore(f) > 0

\* C13: the fallback fill of get_related happens only when the graph hop
\* yielded fewer than cap candidates and adds at most cap minus that number;
\* a filled entry is neither a confident result nor a graph-hop candidate;
\* with a score map every filled entry has normalized score >= SIMILAR_FLOOR,
\* without one word overlap > 0 and no other floor; in both cases the filled
\* entries are taken in descending order of that score.
C13_FallbackFill ==
    RelatedComputed =>
        /\ Len(related) >= HopCount
        /\ Filled # <<>> => HopCount < cap
        /\ Len(Filled) <= cap - HopCount
        /\ \A i \in 1..Len(Filled) :
              /\ Filled[i].file \notin ResultFiles \cup HopTargets
              /\ FillEligible(Filled[i].file)
        /\ \A i, j \in 1..Len(Filled) :
              i < j => /\ Filled[i].file # Filled[j].file
                       /\ FillScore(Filled[i].file) >= FillScore(Filled[j].file)
        /\ \A f \in StoreFiles \ (ResultFiles \cup RelatedFiles \cup HopTargets) :
              FillEligible(f) =>
                  /\ Len(Filled) = cap - HopCount
                  /\ \A i \in 1..Len(Filled) : FillScore(Filled[i].file) >= FillScore(f)

C13_Witness ==
    /\ RelatedComputed
    /\ method = "fuzzy"
    /\ Filled # <<>>
    /\ Len(related) < cap
    /\ \E f \in StoreFiles \ (ResultFiles \cup RelatedFiles) : ~FillEligible(f)

\* the same on the ranking-function path: one graph-hop entry, then an entry
\* filled from the score map
C13_WitnessScoreMap ==
    /\ RelatedComputed
    /\ method = "bm25"
    /\ HopCount = 1
    /\ Len(Filled) = 1
    /\ FillScore(Filled[1].file) = 58

\* store entry k attains the maximum raw score
AttainsMax(k) == scores[k] = MaxScore(scores)

\* similar is empty on the fuzzy path, so a gap never lists a partial match
C14_GapHasNoSimilar ==
    /\ (Scored /\ method = "fuzzy") => similar = <<>>
    /\ (Scored /\ results = <<>>) => similar = <<>>
    /\ (pc = "done" /\ output.gap_detected) => output.similar_blocks = <<>>

\* C14 as stated: on the ranking-function path with top_n >= 1 the entry
\* attaining the maximum raw score normalizes to 1.0 and is in results, so
\* results is non-empty, and a gap has an empty similar list.
C14_Original ==
    /\ (OnBm25Path /\ top_n >= 1) =>
          /\ results # <<>>
          /\ \A k \in 1..Len(all_blocks) :
                AttainsMax(k) => /\ bm25_scores[k].s = 100
                                 /\ all_blocks[k].file \in ResultFiles
    /\ C14_GapHasNoSimilar

\* C14: on the ranking-function path with top_n >= 1, results is non-empty
\* and led by an entry of normalized score 1.0; every entry attaining the
\* maximum raw score normalizes to 1.0 and is in results unless results
\* already holds top_n entries of score 1.0 that precede it in the store;
\* similar is empty on the fuzzy path, so a gap has an empty similar list.
C14_MaxEntryLeadsResults ==
    /\ (OnBm25Path /\ top_n >= 1) =>
          /\ results # <<>>
          /\ results[1].score = 100
          /\ \A k \in 1..Len(all_blocks) :
                AttainsMax(k) =>
                    /\ bm25_scores[k].s = 100
                    /\ \/ all_blocks[k].file \in ResultFiles
                       \/ /\ Len(results) = top_n
                          /\ \A i \in 1..Len(results) :
                                /\ results[i].score = 100
                                /\ IndexPos(results[i].block.file) <
                                      IndexPos(all_blocks[k].file)
    /\ C14_GapHasNoSimilar

\* the only entry attaining the maximum is cut off by an earlier entry that
\* rounds to 1.0
C14_Witness ==
    /\ OnBm25Path
    /\ top_n = 1
    /\ Len(results) = 1
    /\ \E k \in 1..Len(all_blocks) :
          /\ AttainsMax(k)
          /\ \A j \in 1..Len(all_blocks) : AttainsMax(j) => j = k
          /\ all_blocks[k].file \notin ResultFiles

====
